---- MODULE Spec2Model ----
(***************************************************************************)
(* Model of the SVG map editor (App, MapDisplay, CustomizationPanel) and   *)
(* of the standalone script emitted by generateEmbedCode.                  *)
(*                                                                         *)
(* Strings that the code inspects character by character (region ids) are  *)
(* sequences of one-character strings; the literal prefix "map-region-"    *)
(* is kept as one symbol.  A value that may be null is a sequence of       *)
(* length at most one: <<>> is null, <<v>> is v.                           *)
(***************************************************************************)
EXTENDS Integers, Sequences, FiniteSets, TLC

VARIABLES
    prog,               \* which program runs: "index", "editor", "export"
    \* ---- App state (part_003:30-45)
    svgContent,
    customizationData,
    selectedRegionId,
    idChangeOp,
    tooltipTrigger,
    \* ---- MapDisplay state and the live DOM under svgContainerRef
    activeTooltip,
    dom,
    style,              \* inline style of each DOM node, by position
    \* ---- history of the editor session (not program state)
    lastCall,           \* the last handler call, its arguments and result
    idsBeforeReload,    \* region ids that existed before the last file load
    renamed,            \* the last successful rename since the last file load
    renames,            \* number of successful renames since the last load (bounded)
    edits,              \* number of annotation edits since the last load (bounded)
    \* ---- the exported page's script state (exportService.ts:75-90)
    xDom,
    activeClickRegionId,
    tooltipDisplay,
    tooltipFor,
    closeDisplay,
    opened,             \* the link the last event opened with window.open, if any
    \* ---- indexing runs over one document
    ixDoc,              \* the parsed source document (element nodes in document order)
    ixDom,              \* the live DOM after the last run
    ixFirst,            \* the DOM as the first run left it
    ixExport,           \* the DOM as the exported script's indexing leaves it
    ixCounter,          \* idCounter at the end of the last run
    ixRuns,             \* number of indexing runs so far
    \* ---- one tooltip placement
    geometry,           \* the measured input geometry
    placement,          \* the positions the editor and the exported script compute
    \* ---- the colour settings of globalTooltipSettings (part_003:37-45)
    defaultRegionColor,
    defaultRegionHoverColor,
    \* ---- the svg text on its way into the exported script (exportService.ts:79-83)
    embed,
    \* ---- one DOM lookup by identifier
    lookup,
    \* ---- the event listeners on one region element of a loaded svg
    listeners,
    \* ---- the title labels of one exported page
    labels,
    \* ---- where the mouse pointer is (not program state)
    pointer             \* the position of the region under the pointer, if any

appVars == <<svgContent, customizationData, selectedRegionId, idChangeOp, tooltipTrigger>>
mapVars == <<activeTooltip, dom, style>>
histVars == <<lastCall, idsBeforeReload, renamed, renames, edits>>
exportVars == <<xDom, activeClickRegionId, tooltipDisplay, tooltipFor, closeDisplay, opened>>
indexVars == <<ixDoc, ixDom, ixFirst, ixExport, ixCounter, ixRuns>>
geoVars == <<geometry, placement>>
colorVars == <<defaultRegionColor, defaultRegionHoverColor>>
auxVars == <<embed, lookup, listeners, labels, pointer>>
vars == <<prog, appVars, mapVars, histVars, exportVars, indexVars, geoVars, colorVars, auxVars>>

----------------------------------------------------------------------------
(* Bounds of the model *)

\* longest document (number of element nodes) whose indexing is enumerated
MaxNodes == 3
\* successful renames explored per loaded document
MaxRenames == 2
\* annotation edits explored per loaded document
MaxEdits == 1

----------------------------------------------------------------------------
(* Strings *)

Null == <<>>
Some(v) == <<v>>
NoId == <<>>
NoCall == [name |-> "none"]

Whitespace == {" ", "\t"}
HasWhitespace(s) == \E i \in 1..Len(s) : s[i] \in Whitespace

RECURSIVE TrimStart(_)
TrimStart(s) ==
    IF s # <<>> /\ Head(s) \in Whitespace THEN TrimStart(Tail(s)) ELSE s

RECURSIVE TrimEnd(_)
TrimEnd(s) ==
    IF s # <<>> /\ s[Len(s)] \in Whitespace
    THEN TrimEnd(SubSeq(s, 1, Len(s) - 1))
    ELSE s

Trim(s) == TrimEnd(TrimStart(s))

DigitChars == <<"0", "1", "2", "3", "4", "5", "6", "7", "8", "9">>

RECURSIVE Decimal(_)
Decimal(n) ==
    IF n < 10
    THEN <<DigitChars[n + 1]>>
    ELSE Decimal(n \div 10) \o <<DigitChars[(n % 10) + 1]>>

\* the template map-region-${n}
GenId(n) == <<"map-region-">> \o Decimal(n)

----------------------------------------------------------------------------
(* Colours *)

HexChars == <<"0", "1", "2", "3", "4", "5", "6", "7", "8", "9", "a", "b", "c", "d", "e", "f">>
UpperHexChars == <<"0", "1", "2", "3", "4", "5", "6", "7", "8", "9", "A", "B", "C", "D", "E", "F">>

IsHexChar(ch) == \E d \in 1..16 : ch = HexChars[d] \/ ch = UpperHexChars[d]
HexValue(ch) == (CHOOSE d \in 1..16 : ch = HexChars[d] \/ ch = UpperHexChars[d]) - 1

\* parseInt(text, 16): the value of the longest prefix of hex digits.  An
\* empty prefix gives NaN, which the shifts and masks that follow read as 0.
RECURSIVE ParseHexFrom(_, _)
ParseHexFrom(text, acc) ==
    IF text = <<>> \/ ~IsHexChar(Head(text))
    THEN acc
    ELSE ParseHexFrom(Tail(text), acc * 16 + HexValue(Head(text)))
parseInt16(text) == ParseHexFrom(text, 0)

\* n.toString(16).padStart(2, '0') for 0 <= n <= 255
Hex2(n) == <<HexChars[(n \div 16) + 1], HexChars[(n % 16) + 1]>>

\* Math.round(2.55 * percent): the nearest integer, a tie going up
MathRound255(percent) == (2 * 255 * percent + 100) \div 200

Max(a, b) == IF a >= b THEN a ELSE b
Min(a, b) == IF a <= b THEN a ELSE b
Clamp255(n) == Max(0, Min(255, n))

adjustColorShade(hex, percent) ==
    LET stripped == IF hex # <<>> /\ Head(hex) = "#" THEN Tail(hex) ELSE hex
        color == IF Len(stripped) = 3
                 THEN <<stripped[1], stripped[1], stripped[2], stripped[2],
                        stripped[3], stripped[3]>>
                 ELSE stripped
        num == parseInt16(color)
        amount == MathRound255(percent)
        r == Clamp255((num \div 65536) + amount)
        g == Clamp255(((num \div 256) % 256) + amount)
        b == Clamp255((num % 256) + amount)
    IN  <<"#">> \o Hex2(r) \o Hex2(g) \o Hex2(b)

\* the colours App starts with
InitialRegionColor == <<"#", "F", "B", "B", "F", "2", "4">>
Darken == 0 - 10

----------------------------------------------------------------------------
(* Documents and region indexing *)

CLICKABLE_ELEMENTS == {"path", "g", "rect", "circle", "polygon", "ellipse"}

Node(kind, id) == [kind |-> kind, id |-> id]
IsRegion(node) == node.kind \in CLICKABLE_ELEMENTS

\* a loop whose counter is consumed by every region, named or not
RECURSIVE IndexLoopEager(_, _, _)
IndexLoopEager(nodes, i, idCounter) ==
    IF i > Len(nodes)
    THEN [nodes |-> nodes, idCounter |-> idCounter]
    ELSE IF IsRegion(nodes[i])
         THEN IF nodes[i].id = NoId
              THEN IndexLoopEager([nodes EXCEPT ![i].id = GenId(idCounter)], i + 1, idCounter + 1)
              ELSE IndexLoopEager(nodes, i + 1, idCounter + 1)
         ELSE IndexLoopEager(nodes, i + 1, idCounter)

\* The loop of the indexing effect over the element list, in document order;
\* elements that are not of a clickable kind are not in the list.
RECURSIVE IndexLoop(_, _, _)
IndexLoop(nodes, i, idCounter) ==
    IF i > Len(nodes)
    THEN [nodes |-> nodes, idCounter |-> idCounter]
    ELSE IF IsRegion(nodes[i]) /\ nodes[i].id = NoId
         THEN IndexLoop([nodes EXCEPT ![i].id = GenId(idCounter)], i + 1, idCounter + 1)
         ELSE IndexLoop(nodes, i + 1, idCounter)

\* a run whose counter carries on from the previous run
IndexRegionsStale(nodes) == IndexLoop(nodes, 1, ixCounter)
\* let idCounter = 0; elements.forEach(...)
IndexRegions(nodes) == IndexLoop(nodes, 1, 0)

\* The exported script's own loop (allRegions.forEach)
RECURSIVE ExportIndexLoop(_, _, _)
ExportIndexLoop(nodes, i, idCounter) ==
    IF i > Len(nodes)
    THEN [nodes |-> nodes, idCounter |-> idCounter]
    ELSE IF IsRegion(nodes[i]) /\ nodes[i].id = NoId
         THEN ExportIndexLoop([nodes EXCEPT ![i].id = GenId(idCounter)], i + 1, idCounter + 1)
         ELSE ExportIndexLoop(nodes, i + 1, idCounter)

ExportIndexRegions(nodes) == ExportIndexLoop(nodes, 1, 0)

\* the ordered identifier list of the regions of a DOM
RegionIds(nodes) ==
    LET regions == SelectSeq(nodes, IsRegion)
    IN  [i \in 1..Len(regions) |-> regions[i].id]

----------------------------------------------------------------------------
(* Indexing runs over enumerated documents *)

IndexKinds == {"path", "g", "text"}
IndexSourceIds == {NoId, <<"a">>, GenId(0)}
IndexNodes == {Node(k, id) : k \in IndexKinds, id \in IndexSourceIds}
IndexDocs == UNION {[1..n -> IndexNodes] : n \in 0..MaxNodes}

\* values of the variables of the programs that are not running
IdleApp ==
    /\ svgContent = Null
    /\ customizationData = <<>>
    /\ selectedRegionId = Null
    /\ idChangeOp = Null
    /\ tooltipTrigger = "hover"
IdleMap == activeTooltip = Null /\ dom = <<>> /\ style = <<>>
IdleHist ==
    /\ lastCall = NoCall
    /\ idsBeforeReload = {}
    /\ renamed = Null
    /\ renames = 0
    /\ edits = 0
IdleExport ==
    /\ xDom = <<>>
    /\ activeClickRegionId = Null
    /\ tooltipDisplay = "none"
    /\ tooltipFor = Null
    /\ closeDisplay = "none"
    /\ opened = Null
IdleGeo == geometry = Null /\ placement = Null
IdleColor ==
    /\ defaultRegionColor = InitialRegionColor
    /\ defaultRegionHoverColor = adjustColorShade(InitialRegionColor, Darken)
IdleAux ==
    embed = Null /\ lookup = Null /\ listeners = Null /\ labels = Null /\ pointer = Null
IdleIndex ==
    /\ ixDoc = <<>>
    /\ ixDom = <<>>
    /\ ixFirst = <<>>
    /\ ixExport = <<>>
    /\ ixCounter = 0
    /\ ixRuns = 0

InitIndex ==
    /\ prog = "index"
    /\ ixDoc \in IndexDocs
    /\ ixDom = ixDoc
    /\ ixFirst = <<>>
    /\ ixExport = <<>>
    /\ ixCounter = 0
    /\ ixRuns = 0
    /\ IdleApp /\ IdleMap /\ IdleHist /\ IdleExport /\ IdleGeo /\ IdleColor /\ IdleAux

\* first run: the document is injected and indexed, in the editor and in the
\* exported script
IndexRun ==
    /\ prog = "index" /\ ixRuns = 0
    /\ LET r == IndexRegions(ixDoc)
       IN  /\ ixDom' = r.nodes
           /\ ixFirst' = r.nodes
           /\ ixCounter' = r.idCounter
    /\ ixExport' = ExportIndexRegions(ixDoc).nodes
    /\ ixRuns' = 1
    /\ UNCHANGED <<prog, ixDoc, appVars, mapVars, histVars, exportVars, geoVars, colorVars, auxVars>>

\* the indexing effect runs again: container.innerHTML = svgContent, then the loop
IndexRerun ==
    /\ prog = "index" /\ ixRuns = 1
    /\ LET r == IndexRegions(ixDoc)
       IN  /\ ixDom' = r.nodes
           /\ ixCounter' = r.idCounter
    /\ ixRuns' = 2
    /\ UNCHANGED <<prog, ixDoc, ixFirst, ixExport, appVars, mapVars, histVars, exportVars, geoVars, colorVars, auxVars>>

\* the already-indexed document is itself loaded and indexed
IndexIndexed ==
    /\ prog = "index" /\ ixRuns = 1
    /\ LET r == IndexRegions(ixDom)
       IN  /\ ixDom' = r.nodes
           /\ ixCounter' = r.idCounter
    /\ ixRuns' = 2
    /\ UNCHANGED <<prog, ixDoc, ixFirst, ixExport, appVars, mapVars, histVars, exportVars, geoVars, colorVars, auxVars>>

NextIndex == IndexRun \/ IndexRerun \/ IndexIndexed

SpecIndex == InitIndex /\ [][NextIndex]_vars

----------------------------------------------------------------------------
(* Claims about indexing *)

\* number of regions before position i of the source that carry no identifier
AbsentBefore(nodes, i) ==
    Cardinality({j \in 1..(i - 1) : IsRegion(nodes[j]) /\ nodes[j].id = NoId})

ExpectedIndex(source, result) ==
    /\ Len(result) = Len(source)
    /\ \A i \in 1..Len(source) :
        /\ result[i].kind = source[i].kind
        /\ IF IsRegion(source[i]) /\ source[i].id = NoId
           THEN result[i].id = <<"map-region-">> \o Decimal(AbsentBefore(source, i))
           ELSE result[i].id = source[i].id

\* C7: indexing visits the regions in document order, gives each region
\* without an identifier map-region-<n>, n counting the assignments from 0,
\* and leaves a region that has an identifier alone, without consuming a
\* counter value; in the editor and in the exported script.
C7_IndexAssignsInOrder ==
    (prog = "index" /\ ixRuns >= 1) =>
        /\ ExpectedIndex(ixDoc, ixFirst)
        /\ ExpectedIndex(ixDoc, ixExport)
        /\ \A i \in 1..Len(ixDoc) :
              (IsRegion(ixDoc[i]) /\ ixDoc[i].id = NoId /\ AbsentBefore(ixDoc, i) = 0)
                  => ixFirst[i].id = <<"map-region-", "0">>

\* a region with an identifier precedes a region without one, and both are indexed
C7_Witness ==
    /\ prog = "index" /\ ixRuns = 1
    /\ \E i, j \in 1..Len(ixDoc) :
        /\ i < j
        /\ IsRegion(ixDoc[i]) /\ ixDoc[i].id # NoId
        /\ IsRegion(ixDoc[j]) /\ ixDoc[j].id = NoId
        /\ ixFirst[j].id = <<"map-region-", "0">>

NoDuplicateIds(nodes) ==
    \A i, j \in 1..Len(nodes) :
        (i # j /\ IsRegion(nodes[i]) /\ IsRegion(nodes[j]) /\ nodes[i].id # NoId)
            => nodes[i].id # nodes[j].id

\* C8: after indexing a document whose source has no two regions with the
\* same pre-existing id, no two indexed regions share an identifier.
C8_IndexedIdsUnique ==
    (prog = "index" /\ ixRuns >= 1 /\ NoDuplicateIds(ixDoc)) =>
        /\ NoDuplicateIds(ixFirst)
        /\ NoDuplicateIds(ixExport)

\* C9: indexing twice in a row yields the identical ordered identifier list
\* and alters no identifier that existed after the first run.
C9_IndexIdempotent ==
    (prog = "index" /\ ixRuns = 2) =>
        /\ RegionIds(ixDom) = RegionIds(ixFirst)
        /\ ixDom = ixFirst

\* the second run has happened on a document in which the first run assigned ids
C9_Witness ==
    /\ prog = "index" /\ ixRuns = 2
    /\ \E i \in 1..Len(ixDoc) : IsRegion(ixDoc[i]) /\ ixDoc[i].id = NoId
    /\ \E i \in 1..Len(ixDoc) : IsRegion(ixDoc[i]) /\ ixDoc[i].id # NoId
    /\ ixDom # ixDoc

----------------------------------------------------------------------------
(* Structural selectors *)

\* the grave accent, written out: the character cannot stand in a string here
Backtick == "GRAVE"

SelectorSpecials ==
    {"!", "\"", "#", "$", "%", "&", "'", "(", ")", "*", "+", ",", ".", "/", ":",
     ";", "<", "=", ">", "?", "@", "[", "\\", "]", "^", Backtick, "{", "|", "}", "~"}

\* id.replace(/([...])/g, '\\$1'): a backslash before each special character
RECURSIVE EscapeSelector(_)
EscapeSelector(id) ==
    IF id = <<>>
    THEN <<>>
    ELSE (IF Head(id) \in SelectorSpecials THEN <<"\\", Head(id)>> ELSE <<Head(id)>>)
         \o EscapeSelector(Tail(id))

\* The identifier named by the selector text that follows '#': a backslash
\* makes the next character literal; any other special character or white
\* space ends the simple id selector.
RECURSIVE SelectorIdent(_)
SelectorIdent(text) ==
    IF text = <<>>
    THEN [ok |-> TRUE, id |-> <<>>]
    ELSE IF Head(text) = "\\"
         THEN IF Len(text) < 2
              THEN [ok |-> FALSE, id |-> <<>>]
              ELSE LET rest == SelectorIdent(SubSeq(text, 3, Len(text)))
                   IN  [ok |-> rest.ok, id |-> <<text[2]>> \o rest.id]
         ELSE IF Head(text) \in SelectorSpecials \cup Whitespace
              THEN [ok |-> FALSE, id |-> <<>>]
              ELSE LET rest == SelectorIdent(Tail(text))
                   IN  [ok |-> rest.ok, id |-> <<Head(text)>> \o rest.id]

FirstWithId(nodes, id) ==
    IF \E i \in 1..Len(nodes) : nodes[i].id = id
    THEN CHOOSE i \in 1..Len(nodes) :
            /\ nodes[i].id = id
            /\ \A j \in 1..(i - 1) : nodes[j].id # id
    ELSE 0

\* container.querySelector('#' + escaped): the position of the first element
\* with that id, 0 for null; threw when the text is no valid selector.
QuerySelectorId(nodes, escaped) ==
    LET p == SelectorIdent(escaped)
        digitFirst == p.id # <<>> /\ \E d \in 1..Len(DigitChars) : p.id[1] = DigitChars[d]
    IN  IF p.id = <<>> \/ digitFirst
        THEN [threw |-> TRUE, index |-> 0]
        ELSE IF ~p.ok
             THEN [threw |-> FALSE, index |-> 0]
             ELSE [threw |-> FALSE, index |-> FirstWithId(nodes, p.id)]

----------------------------------------------------------------------------
(* The editor: App, MapDisplay and CustomizationPanel *)

Doc(hasSvg, nodes) == [hasSvg |-> hasSvg, nodes |-> nodes]

DocPlain == Doc(TRUE, <<Node("path", <<"a">>), Node("text", NoId), Node("rect", <<"b">>)>>)
DocMixed == Doc(TRUE, <<Node("circle", NoId), Node("path", <<"a">>)>>)
DocNoSvg == Doc(FALSE, <<Node("path", <<"a">>)>>)
EditorDocs == {DocPlain, DocMixed, DocNoSvg}

Fields == {"title", "description", "link", "tooltipImageSrc"}
FieldValues == {"", "x"}
defaultData == [title |-> "", description |-> "", link |-> "", tooltipImageSrc |-> ""]
NoData == [k \in {} |-> defaultData]

Put(data, id, record) ==
    [k \in (DOMAIN data) \cup {id} |-> IF k = id THEN record ELSE data[k]]
Remove(data, id) == [k \in (DOMAIN data) \ {id} |-> data[k]]

\* a JavaScript string or null used as a condition
Truthy(opt) == opt # Null /\ opt[1] # <<>>

\* a test that only asks for a record
HasTooltipContentLax(data, id) == id \in DOMAIN data
\* data && (data.title || data.description || data.tooltipImageSrc)
HasTooltipContent(data, id) ==
    /\ id \in DOMAIN data
    /\ (data[id].title # "" \/ data[id].description # "" \/ data[id].tooltipImageSrc # "")

\* the state the handlers and effects work on
Cur ==
    [svg |-> svgContent, data |-> customizationData, sel |-> selectedRegionId,
     op |-> idChangeOp, trig |-> tooltipTrigger, tip |-> activeTooltip, dom |-> dom,
     style |-> style]

Becomes(t) ==
    /\ svgContent' = t.svg
    /\ customizationData' = t.data
    /\ selectedRegionId' = t.sel
    /\ idChangeOp' = t.op
    /\ tooltipTrigger' = t.trig
    /\ activeTooltip' = t.tip
    /\ dom' = t.dom
    /\ style' = t.style

\* MapDisplay useLayoutEffect [idChangeOp]
RenameEffect(s) ==
    IF s.op = Null \/ s.svg = Null
    THEN s
    ELSE LET q == QuerySelectorId(s.dom, EscapeSelector(s.op[1].oldId))
         IN  IF q.index = 0
             THEN s
             ELSE [s EXCEPT !.dom[q.index].id = s.op[1].newId]

\* MapDisplay useEffect [svgContent, customizationData, onRegionSelect, trigger]:
\* container.innerHTML = svgContent, then the indexing loop
IndexEffect(s) ==
    IF s.svg = Null
    THEN s
    ELSE LET doc == s.svg[1]
         IN  [s EXCEPT !.dom = IF doc.hasSvg THEN IndexRegions(doc.nodes).nodes ELSE doc.nodes]

\* an effect that sets the click tooltip and never clears one
ClickTooltipEffectNoClear(s) ==
    IF s.svg # Null /\ s.trig = "click" /\ Truthy(s.sel) /\ HasTooltipContent(s.data, s.sel[1])
    THEN [s EXCEPT !.tip = Some([id |-> s.sel[1], event |-> Null])]
    ELSE s

\* MapDisplay useEffect [selectedRegionId, trigger, customizationData]
ClickTooltipEffect(s) ==
    IF s.svg = Null
    THEN s
    ELSE IF s.trig # "click"
         THEN IF s.tip # Null /\ s.tip[1].event = Null
              THEN [s EXCEPT !.tip = Null]
              ELSE s
         ELSE IF Truthy(s.sel) /\ HasTooltipContent(s.data, s.sel[1])
              THEN [s EXCEPT !.tip = Some([id |-> s.sel[1], event |-> Null])]
              ELSE [s EXCEPT !.tip = Null]

\* CustomizationPanel useEffect [regionData, selectedRegionId, onDataChange];
\* the panel is rendered while svgContent and selectedRegionId are set
PanelMounted(s) == s.svg # Null /\ Truthy(s.sel)
PanelEffect(s) ==
    IF PanelMounted(s) /\ s.sel[1] \notin DOMAIN s.data
    THEN [s EXCEPT !.data = Put(s.data, s.sel[1], defaultData)]
    ELSE s

\* App useEffect [idChangeOp]
AppOpEffect(s) == [s EXCEPT !.op = Null]

\* one commit: layout effects, then the passive effects of the children,
\* then those of App
Commit(s) == AppOpEffect(PanelEffect(ClickTooltipEffect(IndexEffect(RenameEffect(s)))))

\* the App state a render reads, and the parts of it that differ between two renders
AppState == {"svg", "data", "sel", "op", "trig"}
Updates(p, r) == {k \in AppState : p[k] # r[k]}

\* inline style of a node as the markup gives it
Pristine == [fill |-> "source", stroke |-> "source", cursor |-> "source"]
PristineStyle(nodes) == [i \in 1..Len(nodes) |-> Pristine]

\* MapDisplay useEffect [selectedRegionId, svgContent, globalSettings]: the
\* styling of every clickable element of the container
StylingEffect(sel, nodes, st) ==
    [i \in 1..Len(nodes) |->
        IF IsRegion(nodes[i])
        THEN [fill |-> "defaultRegionColor",
              stroke |-> IF sel = Some(nodes[i].id) THEN "highlight" ELSE "original",
              cursor |-> "pointer"]
        ELSE st[i]]

\* The renders that follow a batch of state updates.  p is the state of the
\* previous render, r the state rendered now, forced the states that were
\* set to a new object of equal value.  An effect runs when one of its
\* dependencies changed: the indexing effect on every render of App
\* (onRegionSelect is a new function each time) and it replaces the DOM, so
\* the inline styles are gone; the styling effect only when the selection,
\* the document or the settings changed.
RECURSIVE Render(_, _, _)
Render(p, r, forced) ==
    LET t == Commit(r)
        upd == Updates(p, r) \cup forced
        mounted == r.svg # Null
        indexed == IF mounted /\ upd # {} THEN PristineStyle(t.dom) ELSE r.style
        styled == IF mounted /\ upd \cap {"sel", "svg", "trig"} # {}
                  THEN StylingEffect(r.sel, t.dom, indexed)
                  ELSE indexed
        u == [t EXCEPT !.style = styled]
    IN  IF Updates(r, u) = {} THEN u ELSE Render(r, u, {})

handleFileLoad(s, doc) == [s EXCEPT !.svg = Some(doc), !.data = NoData, !.sel = Null]

handleRegionSelect(s, id) == [s EXCEPT !.sel = id]

handleDataChange(s, id, record) == [s EXCEPT !.data = Put(s.data, id, record)]

handleGlobalSettingsChange(s, trigger) == [s EXCEPT !.trig = trigger]

\* a rename that does not look for white space inside the trimmed id
handleRegionIdChangeNoSpaceCheck(s, oldId, newId) ==
    LET trimmedNewId == Trim(newId)
    IN  IF oldId = trimmedNewId
        THEN [ok |-> TRUE, st |-> s]
        ELSE IF trimmedNewId = <<>> \/ trimmedNewId \in DOMAIN s.data
             THEN [ok |-> FALSE, st |-> s]
             ELSE [ok |-> TRUE,
                   st |-> [s EXCEPT
                       !.op = Some([oldId |-> oldId, newId |-> trimmedNewId]),
                       !.data = IF oldId \in DOMAIN s.data
                                THEN Put(Remove(s.data, oldId), trimmedNewId, s.data[oldId])
                                ELSE s.data,
                       !.sel = Some(trimmedNewId)]]

\* the result of the call and the state updates it queued
handleRegionIdChange(s, oldId, newId) ==
    LET trimmedNewId == Trim(newId)
    IN  IF oldId = trimmedNewId
        THEN [ok |-> TRUE, st |-> s]
        ELSE IF trimmedNewId = <<>> \/ HasWhitespace(trimmedNewId)
             THEN [ok |-> FALSE, st |-> s]
             ELSE IF trimmedNewId \in DOMAIN s.data
                  THEN [ok |-> FALSE, st |-> s]
                  ELSE [ok |-> TRUE,
                        st |-> [s EXCEPT
                            !.op = Some([oldId |-> oldId, newId |-> trimmedNewId]),
                            !.data = IF oldId \in DOMAIN s.data
                                     THEN Put(Remove(s.data, oldId), trimmedNewId, s.data[oldId])
                                     ELSE s.data,
                            !.sel = Some(trimmedNewId)]]

\* CustomizationPanel.handleIdInputChange: the error shown for the typed text
IdError(s, typed) ==
    \/ Trim(typed) = <<>>
    \/ HasWhitespace(typed)
    \/ (typed \in DOMAIN s.data /\ typed # s.sel[1])

\* a pointer move that shows the tooltip of any region with a record
handleMouseMoveNoCheck(s, target) ==
    IF s.trig = "hover" /\ HasTooltipContentLax(s.data, target.id)
    THEN [s EXCEPT !.tip = Some([id |-> target.id, event |-> Some("pointer")])]
    ELSE s
\* MapDisplay handleMouseMove on a region element
handleMouseMove(s, target) ==
    IF s.trig = "hover" /\ HasTooltipContent(s.data, target.id)
    THEN [s EXCEPT !.tip = Some([id |-> target.id, event |-> Some("pointer")])]
    ELSE s

\* MapDisplay handleMouseLeave
handleMouseLeave(s) == IF s.trig = "hover" THEN [s EXCEPT !.tip = Null] ELSE s

\* the listeners of the indexing effect are attached once the svg root is found
ListenersAttached == svgContent # Null /\ svgContent[1].hasSvg
RegionPositions == {i \in 1..Len(dom) : IsRegion(dom[i])}
RegionIdSet(nodes) == {nodes[i].id : i \in {j \in 1..Len(nodes) : IsRegion(nodes[j])}}

RenameCall(oldId, newId, r) ==
    [name |-> "rename", oldId |-> oldId, newId |-> newId, ok |-> r.ok, op |-> r.st.op]

\* what a rename call leaves in the session's history
RenameHistory(oldId, newId, r) ==
    /\ lastCall' = RenameCall(oldId, newId, r)
    /\ IF r.st.op # Null
       THEN /\ renamed' = Some([oldId |-> oldId, newId |-> r.st.op[1].newId,
                                index |-> FirstWithId(dom, oldId)])
            /\ renames' = renames + 1
       ELSE UNCHANGED <<renamed, renames>>

EditorOnly == UNCHANGED <<prog, exportVars, indexVars, geoVars, colorVars, auxVars>>

InitEditor ==
    /\ prog = "editor"
    /\ IdleApp /\ IdleMap /\ IdleHist /\ IdleExport /\ IdleIndex /\ IdleGeo /\ IdleColor /\ IdleAux

\* a file is dropped, browsed or chosen with Change SVG, and read
LoadFile(doc) ==
    /\ prog = "editor"
    /\ Becomes(Render(Cur, handleFileLoad(Cur, doc), {"data"}))
    /\ idsBeforeReload' = idsBeforeReload \cup RegionIdSet(dom)
    /\ lastCall' = NoCall
    /\ renamed' = Null
    /\ renames' = 0
    /\ edits' = 0
    /\ EditorOnly

\* click on a region element: handleClick
ClickRegion(i) ==
    /\ prog = "editor" /\ ListenersAttached
    /\ i \in RegionPositions
    /\ Becomes(Render(Cur, handleRegionSelect(Cur, Some(dom[i].id)), {}))
    /\ lastCall' = NoCall
    /\ UNCHANGED <<idsBeforeReload, renamed, renames, edits>>
    /\ EditorOnly

\* click on the container or the svg root: handleContainerClick
ClickBackground ==
    /\ prog = "editor" /\ ListenersAttached
    /\ Becomes(Render(Cur, handleRegionSelect(Cur, Null), {}))
    /\ lastCall' = NoCall
    /\ UNCHANGED <<idsBeforeReload, renamed, renames, edits>>
    /\ EditorOnly

\* the rendered tooltip with its close button (click mode only)
TooltipRendered == activeTooltip # Null /\ activeTooltip[1].id \in DOMAIN customizationData
CloseTooltip ==
    /\ prog = "editor" /\ TooltipRendered /\ tooltipTrigger = "click"
    /\ Becomes(Render(Cur, handleRegionSelect(Cur, Null), {}))
    /\ lastCall' = NoCall
    /\ UNCHANGED <<idsBeforeReload, renamed, renames, edits>>
    /\ EditorOnly

\* CustomizationPanel.handleChange on one input of the panel
EditField(field, value) ==
    /\ prog = "editor" /\ PanelMounted(Cur)
    /\ edits < MaxEdits
    /\ LET id == selectedRegionId[1]
           record == customizationData[id]
       IN  /\ record[field] # value
           /\ Becomes(Render(Cur, handleDataChange(Cur, id, [record EXCEPT ![field] = value]), {}))
    /\ edits' = edits + 1
    /\ lastCall' = NoCall
    /\ UNCHANGED <<idsBeforeReload, renamed, renames>>
    /\ EditorOnly

\* text typed into the Region ID input, then blur: handleIdInputChange and
\* handleIdInputBlur
PanelTyped == {<<"z">>, <<"b">>, <<" ", "z">>, <<>>}
PanelRename(typed) ==
    /\ prog = "editor" /\ PanelMounted(Cur)
    /\ renames < MaxRenames
    /\ ~IdError(Cur, typed)
    /\ typed # selectedRegionId[1]
    /\ LET r == handleRegionIdChange(Cur, selectedRegionId[1], Trim(typed))
       IN  /\ Becomes(Render(Cur, r.st, IF r.st.op # Null THEN {"data"} ELSE {}))
           /\ RenameHistory(selectedRegionId[1], Trim(typed), r)
    /\ UNCHANGED <<idsBeforeReload, edits>>
    /\ EditorOnly

\* the Display Trigger buttons of the settings modal
SetTrigger(trigger) ==
    /\ prog = "editor" /\ svgContent # Null
    /\ trigger # tooltipTrigger
    /\ Becomes(Render(Cur, handleGlobalSettingsChange(Cur, trigger), {}))
    /\ lastCall' = NoCall
    /\ UNCHANGED <<idsBeforeReload, renamed, renames, edits>>
    /\ EditorOnly

MouseMove(i) ==
    /\ prog = "editor" /\ ListenersAttached
    /\ i \in RegionPositions
    /\ Becomes(handleMouseMove(Cur, dom[i]))
    /\ lastCall' = NoCall
    /\ UNCHANGED <<idsBeforeReload, renamed, renames, edits>>
    /\ EditorOnly

MouseLeave ==
    /\ prog = "editor" /\ ListenersAttached
    /\ RegionPositions # {}
    /\ Becomes(handleMouseLeave(Cur))
    /\ lastCall' = NoCall
    /\ UNCHANGED <<idsBeforeReload, renamed, renames, edits>>
    /\ EditorOnly

NextEditor ==
    \/ \E doc \in EditorDocs : LoadFile(doc)
    \/ \E i \in 1..MaxNodes : ClickRegion(i)
    \/ ClickBackground
    \/ CloseTooltip
    \/ \E field \in Fields, value \in FieldValues : EditField(field, value)
    \/ \E typed \in PanelTyped : PanelRename(typed)
    \/ \E trigger \in {"hover", "click"} : SetTrigger(trigger)
    \/ \E i \in 1..MaxNodes : MouseMove(i)
    \/ MouseLeave

Spec == InitEditor /\ [][NextEditor]_vars

\* the rename operation called directly with any pair of identifiers
ApiOldIds == {<<"a">>, <<"b">>}
ApiNewIds == {<<"z">>, <<"b">>, <<" ", "z">>, <<"z", "\t">>, <<"z", " ", "y">>, <<" ">>, <<>>}
ApiRename(oldId, newId) ==
    /\ prog = "editor" /\ svgContent # Null
    /\ renames < MaxRenames
    /\ LET r == handleRegionIdChange(Cur, oldId, newId)
       IN  /\ Becomes(Render(Cur, r.st, IF r.st.op # Null THEN {"data"} ELSE {}))
           /\ RenameHistory(oldId, newId, r)
    /\ UNCHANGED <<idsBeforeReload, edits>>
    /\ EditorOnly

\* sessions of loads, selections and direct rename calls
NextApi ==
    \/ \E doc \in EditorDocs : LoadFile(doc)
    \/ \E i \in 1..MaxNodes : ClickRegion(i)
    \/ ClickBackground
    \/ \E oldId \in ApiOldIds, newId \in ApiNewIds : ApiRename(oldId, newId)

SpecApi == InitEditor /\ [][NextApi]_vars

----------------------------------------------------------------------------
(* The file inputs of the application *)

\* a file as the inputs see it: its media type and its text
DocText == Doc(FALSE, <<>>)
Files ==
    {[type |-> "image/svg+xml", content |-> doc] : doc \in EditorDocs}
        \cup {[type |-> t, content |-> DocText] : t \in {"text/plain", "image/png"}}
FileInputs == {"browse", "drop", "change"}

FileCall(via, file, alerted) ==
    [name |-> "file", via |-> via, type |-> file.type, alerted |-> alerted]

\* the reader has read the file: onload calls handleFileLoad with its text
FileRead(via, file) ==
    /\ Becomes(Render(Cur, handleFileLoad(Cur, file.content), {"data"}))
    /\ idsBeforeReload' = idsBeforeReload \cup RegionIdSet(dom)
    /\ lastCall' = FileCall(via, file, FALSE)
    /\ renamed' = Null
    /\ renames' = 0
    /\ edits' = 0

\* A file is chosen.  The upload area (Browse File, drag and drop) is shown
\* while no svg is loaded and goes through FileUpload.handleFile; the
\* header's Change SVG input is shown once an svg is loaded and reads
\* whatever file it is given.
SelectFile(via, file) ==
    /\ prog = "editor"
    /\ IF via = "change"
       THEN /\ svgContent # Null
            /\ FileRead(via, file)
       ELSE /\ svgContent = Null
            /\ IF file.type = "image/svg+xml"
               THEN FileRead(via, file)
               ELSE /\ lastCall' = FileCall(via, file, TRUE)
                    /\ UNCHANGED <<appVars, mapVars, idsBeforeReload, renamed, renames, edits>>
    /\ EditorOnly

NextUpload ==
    \/ \E via \in FileInputs, file \in Files : SelectFile(via, file)
    \/ \E i \in 1..MaxNodes : ClickRegion(i)
    \/ ClickBackground
    \/ \E field \in Fields, value \in FieldValues : EditField(field, value)

SpecUpload == InitEditor /\ [][NextUpload]_vars

----------------------------------------------------------------------------
(* The exported page: the script generateEmbedCode writes *)

\* the snapshot the export freezes into the page
ExportDocs == EditorDocs
ExportIds == {<<"a">>, <<"b">>, GenId(0)}
ExportRecords ==
    {defaultData, [defaultData EXCEPT !.link = "x"], [defaultData EXCEPT !.title = "x"],
     [defaultData EXCEPT !.link = "x", !.tooltipImageSrc = "x"]}
ExportData == UNION {[S -> ExportRecords] : S \in SUBSET ExportIds}

\* the markup a region's handler builds from its record
contentHTML(data) ==
    (IF data.tooltipImageSrc # "" THEN <<"img">> ELSE <<>>)
        \o (IF data.title # "" THEN <<"h3">> ELSE <<>>)
        \o (IF data.description # "" THEN <<"p">> ELSE <<>>)

ExportOnly == UNCHANGED <<prog, appVars, mapVars, histVars, indexVars, geoVars, colorVars, auxVars>>

InitExport ==
    /\ prog = "export"
    /\ svgContent \in {Some(doc) : doc \in ExportDocs}
    /\ customizationData \in ExportData
    /\ selectedRegionId = Null
    /\ idChangeOp = Null
    /\ tooltipTrigger \in {"hover", "click"}
    /\ IdleMap /\ IdleHist /\ IdleExport /\ IdleIndex /\ IdleGeo /\ IdleColor /\ IdleAux

\* DOMContentLoaded: the markup is injected and the regions are indexed
ExportLoaded ==
    /\ prog = "export" /\ xDom = <<>>
    /\ LET doc == svgContent[1]
       IN  xDom' = IF doc.hasSvg THEN ExportIndexRegions(doc.nodes).nodes ELSE doc.nodes
    /\ UNCHANGED <<activeClickRegionId, tooltipDisplay, tooltipFor, closeDisplay, opened>>
    /\ ExportOnly

\* the script found the svg root and attached its listeners
ExportScriptRan == prog \in {"export", "pair"} /\ xDom # <<>> /\ svgContent[1].hasSvg

\* only regions with a record get listeners
ExportInteractive ==
    IF ExportScriptRan
    THEN {i \in 1..Len(xDom) : IsRegion(xDom[i]) /\ xDom[i].id \in DOMAIN customizationData}
    ELSE {}

hideTooltip ==
    /\ tooltipDisplay' = "none"
    /\ activeClickRegionId' = Null
    /\ UNCHANGED <<xDom, tooltipFor, closeDisplay>>

\* the click listener of an interactive region: the click-mode handler, or
\* the link opener of hover mode
onRegionClick(i) ==
    LET regionId == xDom[i].id
        data == customizationData[regionId]
    IN  IF tooltipTrigger = "click"
        THEN /\ opened' = Null
             /\ IF contentHTML(data) = <<>>
                THEN UNCHANGED <<xDom, activeClickRegionId, tooltipDisplay, tooltipFor, closeDisplay>>
                ELSE IF activeClickRegionId = Some(regionId)
                     THEN hideTooltip
                     ELSE /\ activeClickRegionId' = Some(regionId)
                          /\ closeDisplay' = "block"
                          /\ tooltipFor' = Some(regionId)
                          /\ tooltipDisplay' = "block"
                          /\ UNCHANGED xDom
        ELSE /\ opened' = IF data.link # "" THEN Some(data.link) ELSE Null
             /\ UNCHANGED <<xDom, activeClickRegionId, tooltipDisplay, tooltipFor, closeDisplay>>

\* click on a region of the exported page
ExportClickRegion(i) ==
    /\ prog = "export"
    /\ i \in ExportInteractive
    /\ onRegionClick(i)
    /\ ExportOnly

\* click on a shown click tooltip: tooltip.onclick, set when the record has a link
ExportClickTooltip ==
    /\ prog = "export" /\ tooltipTrigger = "click"
    /\ tooltipDisplay = "block" /\ activeClickRegionId # Null
    /\ customizationData[tooltipFor[1]].link # ""
    /\ opened' = Some(customizationData[tooltipFor[1]].link)
    /\ UNCHANGED <<xDom, activeClickRegionId, tooltipDisplay, tooltipFor, closeDisplay>>
    /\ ExportOnly

\* click on the svg root itself
ExportClickSvg ==
    /\ prog = "export" /\ ExportScriptRan
    /\ hideTooltip
    /\ opened' = Null
    /\ ExportOnly

\* the close button is on screen while the tooltip and the button are displayed
ExportCloseVisible == ExportScriptRan /\ tooltipDisplay = "block" /\ closeDisplay = "block"

\* click on the close button of a shown click tooltip
ExportClickClose ==
    /\ prog = "export" /\ ExportCloseVisible
    /\ hideTooltip
    /\ opened' = Null
    /\ ExportOnly

ExportMouseMove(i) ==
    /\ prog = "export"
    /\ i \in ExportInteractive
    /\ tooltipTrigger = "hover"
    /\ LET regionId == xDom[i].id
           data == customizationData[regionId]
       IN  IF activeClickRegionId # Null \/ contentHTML(data) = <<>>
           THEN UNCHANGED <<xDom, activeClickRegionId, tooltipDisplay, tooltipFor, closeDisplay>>
           ELSE /\ closeDisplay' = "none"
                /\ tooltipFor' = Some(regionId)
                /\ tooltipDisplay' = "block"
                /\ UNCHANGED <<xDom, activeClickRegionId>>
    /\ opened' = Null
    /\ ExportOnly

ExportMouseLeave(i) ==
    /\ prog = "export"
    /\ i \in ExportInteractive
    /\ tooltipTrigger = "hover"
    /\ IF activeClickRegionId = Null
       THEN tooltipDisplay' = "none" /\ UNCHANGED <<xDom, activeClickRegionId, tooltipFor, closeDisplay>>
       ELSE UNCHANGED <<xDom, activeClickRegionId, tooltipDisplay, tooltipFor, closeDisplay>>
    /\ opened' = Null
    /\ ExportOnly

NextExport ==
    \/ ExportLoaded
    \/ \E i \in 1..MaxNodes : ExportClickRegion(i)
    \/ ExportClickSvg
    \/ ExportClickClose
    \/ ExportClickTooltip
    \/ \E i \in 1..MaxNodes : ExportMouseMove(i)
    \/ \E i \in 1..MaxNodes : ExportMouseLeave(i)

\* the editor and the page it exports
InitTooltip == InitEditor \/ InitExport
NextTooltip == NextEditor \/ NextExport
SpecTooltip == InitTooltip /\ [][NextTooltip]_vars

----------------------------------------------------------------------------
(* The pointer over the map *)

\* The mouse is followed: the pointer is over one region or over none, a
\* region is clicked where the pointer is, and what is clicked outside the
\* regions (header, dialogs, the map's background) is clicked with the
\* pointer off every region.  The panel's inputs are typed into, wherever
\* the pointer rests.  The browser sends mouseleave to the region the
\* pointer leaves before mousemove to the region it enters.
PointerOnly ==
    UNCHANGED <<prog, exportVars, indexVars, geoVars, colorVars, embed, lookup, listeners, labels>>
ExportPointerOnly ==
    UNCHANGED <<prog, appVars, mapVars, histVars, indexVars, geoVars, colorVars,
                embed, lookup, listeners, labels>>

\* the pointer moves onto region i of the editor's map, or within it
PointerMove(i) ==
    /\ prog = "editor" /\ ListenersAttached
    /\ i \in RegionPositions
    /\ LET left == IF pointer # Null /\ pointer # Some(i) THEN handleMouseLeave(Cur) ELSE Cur
       IN  Becomes(handleMouseMove(left, dom[i]))
    /\ pointer' = Some(i)
    /\ lastCall' = NoCall
    /\ UNCHANGED <<idsBeforeReload, renamed, renames, edits>>
    /\ PointerOnly

\* the pointer leaves the region it is over
PointerLeave ==
    /\ prog = "editor" /\ ListenersAttached
    /\ pointer # Null
    /\ Becomes(handleMouseLeave(Cur))
    /\ pointer' = Null
    /\ lastCall' = NoCall
    /\ UNCHANGED <<idsBeforeReload, renamed, renames, edits>>
    /\ PointerOnly

\* the mouseleave listener of region j of the exported page, if it has one
onExportLeave(j, display) ==
    IF j \in ExportInteractive /\ tooltipTrigger = "hover" /\ activeClickRegionId = Null
    THEN "none"
    ELSE display

\* the pointer moves onto region i of the exported page, or within it
ExportPointerMove(i) ==
    /\ prog = "export" /\ ExportScriptRan
    /\ i \in 1..Len(xDom) /\ IsRegion(xDom[i])
    /\ LET left == IF pointer # Null /\ pointer # Some(i)
                   THEN onExportLeave(pointer[1], tooltipDisplay)
                   ELSE tooltipDisplay
           shows == /\ i \in ExportInteractive /\ tooltipTrigger = "hover"
                    /\ activeClickRegionId = Null
                    /\ contentHTML(customizationData[xDom[i].id]) # <<>>
       IN  /\ tooltipDisplay' = IF shows THEN "block" ELSE left
           /\ tooltipFor' = IF shows THEN Some(xDom[i].id) ELSE tooltipFor
           /\ closeDisplay' = IF shows THEN "none" ELSE closeDisplay
    /\ pointer' = Some(i)
    /\ opened' = Null
    /\ UNCHANGED <<xDom, activeClickRegionId>>
    /\ ExportPointerOnly

\* the pointer leaves the region of the exported page it is over
ExportPointerLeave ==
    /\ prog = "export" /\ ExportScriptRan
    /\ pointer # Null
    /\ tooltipDisplay' = onExportLeave(pointer[1], tooltipDisplay)
    /\ pointer' = Null
    /\ opened' = Null
    /\ UNCHANGED <<xDom, activeClickRegionId, tooltipFor, closeDisplay>>
    /\ ExportPointerOnly

NextHover ==
    \/ \E i \in 1..MaxNodes : PointerMove(i)
    \/ PointerLeave
    \/ \E i \in 1..MaxNodes : pointer = Some(i) /\ ClickRegion(i)
    \/ pointer = Null /\ \E doc \in EditorDocs : LoadFile(doc)
    \/ pointer = Null /\ ClickBackground
    \/ pointer = Null /\ CloseTooltip
    \/ \E field \in Fields, value \in FieldValues : EditField(field, value)
    \/ \E typed \in PanelTyped : PanelRename(typed)
    \/ pointer = Null /\ \E trigger \in {"hover", "click"} : SetTrigger(trigger)
    \/ ExportLoaded
    \/ \E i \in 1..MaxNodes : ExportPointerMove(i)
    \/ ExportPointerLeave
    \/ \E i \in 1..MaxNodes : pointer = Some(i) /\ ExportClickRegion(i)
    \/ pointer = Null /\ ExportClickSvg

SpecHover == InitTooltip /\ [][NextHover]_vars

----------------------------------------------------------------------------
(* The editor and the page exported from it, driven by the same clicks *)

\* Snapshots with a record for every region of the document (every region
\* was selected once), so that the panel creates no record after the export
\* and customizationData stays the exported snapshot.
PairRecords == ExportRecords

PairOnly == UNCHANGED <<prog, histVars, indexVars, geoVars, colorVars, auxVars>>

\* the editor as it renders document, snapshot and trigger with nothing selected
EditorShowing(doc, data, trigger) ==
    LET e == [svg |-> Some(doc), data |-> data, sel |-> Null, op |-> Null, trig |-> trigger,
              tip |-> Null, dom |-> <<>>, style |-> <<>>]
    IN  Render(e, e, AppState)

InitPair ==
    /\ prog = "pair"
    /\ \E doc \in EditorDocs, trigger \in {"hover", "click"} :
          LET nodes == IF doc.hasSvg THEN IndexRegions(doc.nodes).nodes ELSE doc.nodes
          IN  \E data \in [RegionIdSet(nodes) -> PairRecords] :
                LET e == EditorShowing(doc, data, trigger)
                IN  /\ svgContent = e.svg
                    /\ customizationData = e.data
                    /\ selectedRegionId = e.sel
                    /\ idChangeOp = e.op
                    /\ tooltipTrigger = e.trig
                    /\ activeTooltip = e.tip
                    /\ dom = e.dom
                    /\ style = e.style
                    /\ xDom = IF doc.hasSvg THEN ExportIndexRegions(doc.nodes).nodes ELSE doc.nodes
    /\ activeClickRegionId = Null
    /\ tooltipDisplay = "none"
    /\ tooltipFor = Null
    /\ closeDisplay = "none"
    /\ opened = Null
    /\ IdleHist /\ IdleIndex /\ IdleGeo /\ IdleColor /\ IdleAux

\* the close button of the editor's tooltip is rendered in click mode only
EditorCloseVisible == TooltipRendered /\ tooltipTrigger = "click"

\* one click on the element at position i of both pages
PairClickRegion(i) ==
    /\ prog = "pair" /\ ListenersAttached
    /\ i \in RegionPositions
    /\ Becomes(Render(Cur, handleRegionSelect(Cur, Some(dom[i].id)), {}))
    /\ IF i \in ExportInteractive THEN onRegionClick(i) ELSE UNCHANGED exportVars
    /\ PairOnly

\* one click on the close control, where both pages show it
PairClickClose ==
    /\ prog = "pair"
    /\ EditorCloseVisible /\ ExportCloseVisible
    /\ Becomes(Render(Cur, handleRegionSelect(Cur, Null), {}))
    /\ hideTooltip
    /\ opened' = Null
    /\ PairOnly

\* one click on the svg root of both pages
PairClickBackground ==
    /\ prog = "pair" /\ ListenersAttached /\ ExportScriptRan
    /\ Becomes(Render(Cur, handleRegionSelect(Cur, Null), {}))
    /\ hideTooltip
    /\ opened' = Null
    /\ PairOnly

NextPair ==
    \/ \E i \in 1..MaxNodes : PairClickRegion(i)
    \/ PairClickClose
    \/ PairClickBackground

SpecPair == InitPair /\ [][NextPair]_vars

----------------------------------------------------------------------------
(* The colour settings of App *)

\* the part of GlobalTooltipSettings the region colours depend on
SettingsCur ==
    [tooltipTrigger |-> tooltipTrigger,
     defaultRegionColor |-> defaultRegionColor,
     defaultRegionHoverColor |-> defaultRegionHoverColor]

\* values a colour input gives (#rrggbb), and a three-digit colour
SettingChannels == {<<"0", "0">>, <<"0", "f">>, <<"2", "4">>, <<"f", "f">>}
SettingColors ==
    {<<"#">> \o r \o g \o b : r \in SettingChannels, g \in SettingChannels, b \in SettingChannels}
        \cup {<<"#", "f", "a", "0">>}
RequestedHoverColors == {<<"#", "0", "0", "0", "0", "0", "0">>, <<"#", "f", "f", "f", "f", "f", "f">>}
SettingsRecords ==
    [tooltipTrigger : {"hover", "click"},
     defaultRegionColor : SettingColors,
     defaultRegionHoverColor : RequestedHoverColors]

\* settings stored as they were requested
newSettingsAsRequested(settings) == settings

\* handleGlobalSettingsChange: the copy of the requested settings whose
\* hover colour is recalculated from the region colour
newSettings(settings) ==
    [settings EXCEPT !.defaultRegionHoverColor = adjustColorShade(settings.defaultRegionColor, Darken)]

setGlobalTooltipSettings(settings) ==
    /\ tooltipTrigger' = settings.tooltipTrigger
    /\ defaultRegionColor' = settings.defaultRegionColor
    /\ defaultRegionHoverColor' = settings.defaultRegionHoverColor

SettingsCall(settings) == [name |-> "onSettingsChange", settings |-> settings]

SettingsOnly ==
    UNCHANGED <<prog, svgContent, customizationData, selectedRegionId, idChangeOp, mapVars,
                idsBeforeReload, renamed, renames, edits, exportVars, indexVars, geoVars, auxVars>>

InitSettings ==
    /\ prog = "settings"
    /\ IdleApp /\ IdleMap /\ IdleHist /\ IdleExport /\ IdleIndex /\ IdleGeo /\ IdleColor /\ IdleAux

\* onSettingsChange called with any settings record
ReplaceSettings(settings) ==
    /\ prog = "settings"
    /\ setGlobalTooltipSettings(newSettings(settings))
    /\ lastCall' = SettingsCall(settings)
    /\ SettingsOnly

\* GlobalSettingsModal.handleChange on the Region Color input or a trigger button
ModalChange(field, value) ==
    /\ prog = "settings"
    /\ LET requested == [SettingsCur EXCEPT ![field] = value]
       IN  /\ setGlobalTooltipSettings(newSettings(requested))
           /\ lastCall' = SettingsCall(requested)
    /\ SettingsOnly

\* GlobalTooltipSettingsPanel.handleChange on a trigger button
PanelChange(trigger) ==
    /\ prog = "settings"
    /\ LET requested == [SettingsCur EXCEPT !.tooltipTrigger = trigger]
       IN  /\ setGlobalTooltipSettings(newSettings(requested))
           /\ lastCall' = SettingsCall(requested)
    /\ SettingsOnly

NextSettings ==
    \/ \E settings \in SettingsRecords : ReplaceSettings(settings)
    \/ \E color \in SettingColors : ModalChange("defaultRegionColor", color)
    \/ \E trigger \in {"hover", "click"} : ModalChange("tooltipTrigger", trigger)
    \/ \E trigger \in {"hover", "click"} : PanelChange(trigger)

SpecSettings == InitSettings /\ [][NextSettings]_vars

----------------------------------------------------------------------------
(* The svg text embedded into the exported script *)

\* Text is a sequence of symbols.  The words "script>" and "SCRIPT>" are
\* kept as one symbol each; the regular expression of the last replacement
\* ignores case, its replacement text is in lower case.
Backslash == "\\"
EmbedAlphabet == {Backslash, Backtick, "$", "{", "<", "/", "script>", "SCRIPT>", "a"}
MaxText == 4
EmbedTexts == UNION {[1..n -> EmbedAlphabet] : n \in 0..MaxText}

\* text.replace(/\\/g, '\\\\')
RECURSIVE ReplaceBackslash(_)
ReplaceBackslash(t) ==
    IF t = <<>> THEN <<>>
    ELSE IF Head(t) = Backslash
         THEN <<Backslash, Backslash>> \o ReplaceBackslash(Tail(t))
         ELSE <<Head(t)>> \o ReplaceBackslash(Tail(t))

\* text.replace(/GRAVE/g, backslash GRAVE)
RECURSIVE ReplaceBacktick(_)
ReplaceBacktick(t) ==
    IF t = <<>> THEN <<>>
    ELSE IF Head(t) = Backtick
         THEN <<Backslash, Backtick>> \o ReplaceBacktick(Tail(t))
         ELSE <<Head(t)>> \o ReplaceBacktick(Tail(t))

\* text.replace(/\$\{/g, '\\${')
RECURSIVE ReplaceInterpolation(_)
ReplaceInterpolation(t) ==
    IF t = <<>> THEN <<>>
    ELSE IF Len(t) >= 2 /\ t[1] = "$" /\ t[2] = "{"
         THEN <<Backslash, "$", "{">> \o ReplaceInterpolation(SubSeq(t, 3, Len(t)))
         ELSE <<Head(t)>> \o ReplaceInterpolation(Tail(t))

\* text.replace(/<\/script>/gi, '<\\/script>')
RECURSIVE ReplaceScriptClose(_)
ReplaceScriptClose(t) ==
    IF t = <<>> THEN <<>>
    ELSE IF Len(t) >= 3 /\ t[1] = "<" /\ t[2] = "/" /\ t[3] \in {"script>", "SCRIPT>"}
         THEN <<"<", Backslash, "/", "script>">> \o ReplaceScriptClose(SubSeq(t, 4, Len(t)))
         ELSE <<Head(t)>> \o ReplaceScriptClose(Tail(t))

\* the four replacements of generateEmbedCode, in the order of the code
EscapeSvg(t) == ReplaceScriptClose(ReplaceInterpolation(ReplaceBacktick(ReplaceBackslash(t))))

\* The browser evaluating the template literal whose body is t: a backslash
\* escapes the symbol after it, a bare GRAVE ends the literal and a bare
\* dollar-brace opens an interpolation.
RECURSIVE EvalTemplate(_, _)
EvalTemplate(t, acc) ==
    IF t = <<>> THEN [ok |-> TRUE, value |-> acc]
    ELSE IF Head(t) = Backslash
         THEN IF Len(t) = 1
              THEN [ok |-> FALSE, value |-> acc]
              ELSE EvalTemplate(SubSeq(t, 3, Len(t)), Append(acc, t[2]))
         ELSE IF Head(t) = Backtick \/ (Len(t) >= 2 /\ t[1] = "$" /\ t[2] = "{")
              THEN [ok |-> FALSE, value |-> acc]
              ELSE EvalTemplate(Tail(t), Append(acc, Head(t)))

\* the variables of the editor, the exported page and the pure programs above
CoreOnly ==
    UNCHANGED <<prog, appVars, mapVars, histVars, exportVars, indexVars, geoVars, colorVars>>
IdleCore == IdleApp /\ IdleMap /\ IdleHist /\ IdleExport /\ IdleIndex /\ IdleGeo /\ IdleColor

EmbedOnly == CoreOnly /\ UNCHANGED <<lookup, listeners, labels, pointer>>

InitEmbed ==
    /\ prog = "embed"
    /\ \E t \in EmbedTexts : embed = Some([source |-> t, escaped |-> Null, value |-> Null])
    /\ lookup = Null /\ listeners = Null /\ labels = Null /\ pointer = Null
    /\ IdleCore

\* generateEmbedCode writes the escaped text between two GRAVE characters
EmitScript ==
    /\ prog = "embed" /\ embed[1].escaped = Null
    /\ embed' = Some([embed[1] EXCEPT !.escaped = Some(EscapeSvg(embed[1].source))])
    /\ EmbedOnly

\* the page's script runs: const svgContent = the template literal
RunScript ==
    /\ prog = "embed" /\ embed[1].escaped # Null /\ embed[1].value = Null
    /\ embed' = Some([embed[1] EXCEPT !.value = Some(EvalTemplate(embed[1].escaped[1], <<>>))])
    /\ EmbedOnly

NextEmbed == EmitScript \/ RunScript
SpecEmbed == InitEmbed /\ [][NextEmbed]_vars

----------------------------------------------------------------------------
(* DOM lookups by identifier *)

\* MapDisplay of part_002:69, its replacement text '\\\\$1': two backslashes
\* before each special character
RECURSIVE EscapeSelectorTwice(_)
EscapeSelectorTwice(id) ==
    IF id = <<>>
    THEN <<>>
    ELSE (IF Head(id) \in SelectorSpecials THEN <<Backslash, Backslash, Head(id)>> ELSE <<Head(id)>>)
         \o EscapeSelectorTwice(Tail(id))

\* The exported script.  generateEmbedCode writes the script as a template
\* literal, which drops the backslash before the first closing bracket of
\* the character class; the class of the emitted expression ends there and
\* the expression reads ([!"#$%&'()*+,./:;<=>?@[]^ GRAVE {|}~]): a special
\* character followed by the start of the text, which never matches, or the
\* three characters }~] .  Its replacement text is '\\$1'.
RECURSIVE ExportEscapeSelector(_)
ExportEscapeSelector(id) ==
    IF id = <<>>
    THEN <<>>
    ELSE IF Len(id) >= 3 /\ id[1] = "}" /\ id[2] = "~" /\ id[3] = "]"
         THEN <<Backslash, "}", "~", "]">> \o ExportEscapeSelector(SubSeq(id, 4, Len(id)))
         ELSE <<Head(id)>> \o ExportEscapeSelector(Tail(id))

\* identifiers of up to two characters with a character that needs escaping
LookupAlphabet == {"a", "1", ".", ":"}
LookupIds ==
    {id \in UNION {[1..n -> LookupAlphabet] : n \in 1..2} :
        \E i \in 1..Len(id) : id[i] \in SelectorSpecials}
\* documents of two regions with different ids
LookupDocs ==
    {<<Node("path", a), Node("rect", b)>> : a \in LookupIds, b \in LookupIds \cup {<<"a">>}}
LookupKinds == {"rename", "rename-first-variant", "placement", "label"}

\* the selector text each lookup hands to querySelector after the '#'
LookupSelector(kind, id) ==
    CASE kind = "rename" -> EscapeSelector(id)
      [] kind = "placement" -> EscapeSelector(id)
      [] kind = "rename-first-variant" -> EscapeSelectorTwice(id)
      [] kind = "label" -> ExportEscapeSelector(id)

LookupOnly == CoreOnly /\ UNCHANGED <<embed, listeners, labels, pointer>>

InitLookup ==
    /\ prog = "lookup"
    /\ \E nodes \in LookupDocs, i \in 1..2 :
          /\ nodes[1].id # nodes[2].id
          /\ nodes[i].id \in LookupIds
          /\ lookup = Some([nodes |-> nodes, id |-> nodes[i].id, kind |-> "none",
                            found |-> [threw |-> FALSE, index |-> 0]])
    /\ embed = Null /\ listeners = Null /\ labels = Null /\ pointer = Null
    /\ IdleCore

\* one of the lookups runs for the identifier
Lookup(kind) ==
    /\ prog = "lookup"
    /\ lookup' = Some([lookup[1] EXCEPT
                          !.kind = kind,
                          !.found = QuerySelectorId(lookup[1].nodes,
                                                    LookupSelector(kind, lookup[1].id))])
    /\ LookupOnly

NextLookup == \E kind \in LookupKinds : Lookup(kind)
SpecLookup == InitLookup /\ [][NextLookup]_vars

----------------------------------------------------------------------------
(* Event listeners on a region element *)

\* A handler is a kind and the effect run that created its function: every
\* run of an effect creates new functions.  The element is one region of the
\* loaded svg; all regions are treated alike.
MaxRuns == 6
ListenerKinds == {"click", "mousemove", "mouseleave", "mouseenter-hover", "mouseleave-hover"}
Handler(kind, run) == [kind |-> kind, run |-> run]
Interaction(run) == {Handler(k, run) : k \in {"click", "mousemove", "mouseleave"}}
Hover(run) == {Handler(k, run) : k \in {"mouseenter-hover", "mouseleave-hover"}}

\* MapDisplay of FileUpload.tsx, indexing effect: its cleanup detaches the
\* handlers of the previous run, innerHTML makes new elements, and the new
\* handlers are detached (nothing to detach) and attached
IndexingRun(on, run) == (({} \ Interaction(run)) \cup Interaction(run))

\* the mode variant's listener effect: the cleanup detaches the handlers of
\* the previous run from the same elements, then the new ones are attached
ListenerRun(on, run) == (on \ Interaction(run - 1)) \cup Interaction(run)

\* styling effect of both variants: applyHover and removeHover are new
\* functions, detached (nothing to detach) and attached; no cleanup
StylingRun(on, run) == (on \ Hover(run)) \cup Hover(run)

\* the effects of one commit of App after a change of selection or settings
EffectsRun(variant, on, run) ==
    IF variant = "FileUpload"
    THEN StylingRun(IndexingRun(on, run), run)
    ELSE StylingRun(ListenerRun(on, run), run)

ListenersOnly == CoreOnly /\ UNCHANGED <<embed, lookup, labels, pointer>>

ListenerSelections == {Null, Some(<<"a">>), Some(<<"b">>)}
InitListeners ==
    /\ prog = "listeners"
    /\ \E variant \in {"FileUpload", "mode"} :
          listeners = Some([variant |-> variant, sel |-> Null, trigger |-> "hover",
                            color |-> InitialRegionColor, run |-> 1,
                            on |-> EffectsRun(variant, {}, 1)])
    /\ embed = Null /\ lookup = Null /\ labels = Null /\ pointer = Null
    /\ IdleCore

\* handleRegionSelect with another value: App renders, the effects run
SelectionChange(sel) ==
    /\ prog = "listeners"
    /\ listeners[1].run < MaxRuns
    /\ sel # listeners[1].sel
    /\ LET l == listeners[1]
       IN  listeners' = Some([l EXCEPT !.sel = sel, !.run = l.run + 1,
                                       !.on = EffectsRun(l.variant, l.on, l.run + 1)])
    /\ ListenersOnly

\* handleGlobalSettingsChange: a new settings object, App renders, the effects run
SettingsChange(trigger, color) ==
    /\ prog = "listeners"
    /\ listeners[1].run < MaxRuns
    /\ LET l == listeners[1]
       IN  listeners' = Some([l EXCEPT !.trigger = trigger, !.color = color, !.run = l.run + 1,
                                       !.on = EffectsRun(l.variant, l.on, l.run + 1)])
    /\ ListenersOnly

NextListeners ==
    \/ \E sel \in ListenerSelections : SelectionChange(sel)
    \/ \E trigger \in {"hover", "click"}, color \in {InitialRegionColor, <<"#", "0", "0", "0", "0", "0", "0">>} :
          SettingsChange(trigger, color)

SpecListeners == InitListeners /\ [][NextListeners]_vars

----------------------------------------------------------------------------
(* The exported page: the title labels *)

LabelIds == {<<"a">>, <<"b">>, <<"1">>, <<"a", ".", "b">>}
\* what getBBox gives for a region, or that it throws
LabelBoxes ==
    {[threw |-> FALSE, width |-> w, height |-> h] : w \in {0, 10}, h \in {0, 10}}
        \cup {[threw |-> TRUE, width |-> 0, height |-> 0]}
LabelTitles == {<<>>, <<"t">>}

LabelsOnly == CoreOnly /\ UNCHANGED <<embed, lookup, listeners, pointer>>

\* a page of two regions, each with a record under its id
InitLabels ==
    /\ prog = "labels"
    /\ \E a \in LabelIds, b \in LabelIds, boxes \in [1..2 -> LabelBoxes],
          titles \in [1..2 -> LabelTitles] :
          /\ a # b
          /\ labels = Some([nodes |-> <<Node("path", a), Node("rect", b)>>,
                            boxes |-> boxes,
                            keys |-> <<a, b>>,
                            titles |-> titles,
                            ran |-> FALSE, added |-> {}, warned |-> {}])
    /\ embed = Null /\ lookup = Null /\ listeners = Null /\ pointer = Null
    /\ IdleCore

\* Object.keys(customizationData).forEach: the labels added and the warnings
\* logged from key number k on
RECURSIVE TitleLoop(_, _, _)
TitleLoop(l, k, acc) ==
    IF k > Len(l.keys) THEN acc
    ELSE
        LET regionId == l.keys[k]
            region == QuerySelectorId(l.nodes, ExportEscapeSelector(regionId))
        IN  IF l.titles[k] = <<>> THEN TitleLoop(l, k + 1, acc)
            ELSE IF region.threw
                 THEN TitleLoop(l, k + 1, [acc EXCEPT !.warned = @ \cup {regionId}])
            ELSE IF region.index = 0 THEN TitleLoop(l, k + 1, acc)
            ELSE LET bbox == l.boxes[region.index]
                 IN  IF bbox.threw
                     THEN TitleLoop(l, k + 1, [acc EXCEPT !.warned = @ \cup {regionId}])
                     ELSE IF bbox.width > 0 \/ bbox.height > 0
                          THEN TitleLoop(l, k + 1, [acc EXCEPT !.added = @ \cup {regionId}])
                          ELSE TitleLoop(l, k + 1, acc)

\* the exported script adds the titles on top of the regions
AddTitles ==
    /\ prog = "labels" /\ ~labels[1].ran
    /\ LET out == TitleLoop(labels[1], 1, [added |-> {}, warned |-> {}])
       IN  labels' = Some([labels[1] EXCEPT !.ran = TRUE,
                                            !.added = out.added, !.warned = out.warned])
    /\ LabelsOnly

SpecLabels == InitLabels /\ [][AddTitles]_vars

----------------------------------------------------------------------------
(* Tooltip placement *)

\* Lengths are whole pixels; the geometries enumerated below are chosen so
\* that every division of the placement code is exact.
Rect(left, top, width, height) == [left |-> left, top |-> top, width |-> width, height |-> height]
Box(x, y, width, height) == [x |-> x, y |-> y, width |-> width, height |-> height]

\* MapDisplay positioning effect, hover branch.  g.pointer is clientX/clientY,
\* g.tooltip the measured tooltip rectangle, g.window innerWidth/innerHeight.
EditorHoverPlacement(g) ==
    LET offsetX == 15
        left0 == g.pointer.x + offsetX
        left1 == IF left0 + g.tooltip.width > g.window.width
                 THEN g.pointer.x - g.tooltip.width - offsetX
                 ELSE left0
        top0 == g.pointer.y + offsetX
        top1 == IF top0 + g.tooltip.height > g.window.height
                THEN g.pointer.y - g.tooltip.height - offsetX
                ELSE top0
    IN  [left |-> left1 - g.container.left, top |-> top1 - g.container.top]

\* the exported mousemove handler.  g.pointer is pageX/pageY.
ExportHoverPlacement(g) ==
    LET left0 == g.pointer.x - g.container.left + 15
        left1 == IF left0 + g.tooltip.width > g.container.width
                 THEN g.pointer.x - g.container.left - g.tooltip.width - 15
                 ELSE left0
        top0 == g.pointer.y - g.container.top + 15
        top1 == IF top0 + g.tooltip.height > g.container.height
                THEN g.pointer.y - g.container.top - g.tooltip.height - 15
                ELSE top0
    IN  [left |-> left1, top |-> top1]

\* a click placement that centres on the region and never clamps
EditorClickPlacementCentred(g) ==
    [left |-> (g.svgRect.left - g.container.left)
                 + ((g.bbox.x + g.bbox.width \div 2) * g.svgRect.width) \div g.viewBox.width
                 - g.tooltip.width \div 2,
     top |-> 0]

\* MapDisplay positioning effect, click branch, for a region that was found
EditorClickPlacement(g) ==
    IF g.viewBox.width > 0
    THEN LET scaleNumX == g.svgRect.width
             scaleNumY == g.svgRect.height
             elementCenterX == (g.svgRect.left - g.container.left)
                                 + ((g.bbox.x + g.bbox.width \div 2) * scaleNumX) \div g.viewBox.width
             elementTopY == (g.svgRect.top - g.container.top)
                                 + (g.bbox.y * scaleNumY) \div g.viewBox.height
             elementBottomY == (g.svgRect.top - g.container.top)
                                 + ((g.bbox.y + g.bbox.height) * scaleNumY) \div g.viewBox.height
             offset == 10
             top0 == elementTopY - g.tooltip.height - offset
             top1 == IF top0 < 0 THEN elementBottomY + offset ELSE top0
             left0 == elementCenterX - g.tooltip.width \div 2
             left1 == IF left0 < 0 THEN offset ELSE left0
             left2 == IF left1 + g.tooltip.width > g.container.width
                      THEN g.container.width - g.tooltip.width - offset
                      ELSE left1
         IN  [left |-> left2, top |-> top1]
    ELSE [left |-> 0, top |-> 0]

\* the exported click handler's placement
ExportClickPlacement(g) ==
    LET x == g.svgRect.left - g.container.left
                 + ((g.bbox.x + g.bbox.width \div 2) * g.svgRect.width) \div g.viewBox.width
        y == g.svgRect.top - g.container.top
                 + ((g.bbox.y + g.bbox.height \div 2) * g.svgRect.height) \div g.viewBox.height
        left0 == x - g.tooltip.width \div 2
        top0 == y - g.tooltip.height - 10
        top1 == IF top0 < g.container.top
                THEN y + ((g.bbox.height \div 2) * g.svgRect.height) \div g.viewBox.height + 10
                ELSE top0
        left1 == IF left0 < 0 THEN 10 ELSE left0
        left2 == IF left1 + g.tooltip.width > g.container.width
                 THEN g.container.width - g.tooltip.width - 10
                 ELSE left1
    IN  [left |-> left2, top |-> top1]

\* the geometries enumerated
HoverGeometries ==
    {[mode |-> "hover",
      pointer |-> [x |-> px, y |-> py],
      tooltip |-> Rect(0, 0, 200, 100),
      window |-> [width |-> 800, height |-> 600],
      container |-> Rect(cl, ct, cw, ch)] :
        px \in {100, 300, 750}, py \in {100, 550},
        cl \in {0, 50}, ct \in {0, 20}, cw \in {400, 800}, ch \in {300, 600}}

ClickGeometries ==
    {[mode |-> "click",
      bbox |-> Box(bx, by, bw, bh),
      svgRect |-> Rect(20, 20, sw, sw \div 2),
      viewBox |-> [width |-> 200, height |-> 100],
      tooltip |-> Rect(0, 0, tw, th),
      container |-> Rect(cl, cl, 400, 200)] :
        bx \in {0, 40, 180}, by \in {0, 60}, bw \in {10, 20}, bh \in {20, 40},
        sw \in {200, 400}, tw \in {100, 396}, th \in {40, 100}, cl \in {0, 20}}

GeoOnly == UNCHANGED <<prog, appVars, mapVars, histVars, exportVars, indexVars, colorVars, auxVars>>

InitGeo ==
    /\ prog = "geometry"
    /\ geometry \in {Some(g) : g \in HoverGeometries \cup ClickGeometries}
    /\ placement = Null
    /\ IdleApp /\ IdleMap /\ IdleHist /\ IdleExport /\ IdleIndex /\ IdleColor /\ IdleAux

\* a hover tooltip is measured and placed, in the editor and in the exported page
PlaceHover ==
    /\ prog = "geometry" /\ placement = Null
    /\ geometry[1].mode = "hover"
    /\ placement' = Some([editor |-> EditorHoverPlacement(geometry[1]),
                          export |-> ExportHoverPlacement(geometry[1])])
    /\ UNCHANGED geometry
    /\ GeoOnly

\* a click tooltip is measured and placed, in the editor and in the exported page
PlaceClick ==
    /\ prog = "geometry" /\ placement = Null
    /\ geometry[1].mode = "click"
    /\ placement' = Some([editor |-> EditorClickPlacement(geometry[1]),
                          export |-> ExportClickPlacement(geometry[1])])
    /\ UNCHANGED geometry
    /\ GeoOnly

NextGeo == PlaceHover \/ PlaceClick

SpecGeo == InitGeo /\ [][NextGeo]_vars

----------------------------------------------------------------------------
(* Click placement over an SVG without a usable viewBox *)

\* A script number: a whole number, or one of the non-finite values that a
\* division by zero produces.  Nothing here raises an error.
Num(n) == [kind |-> "finite", n |-> n]
NonFinite(kind) == [kind |-> kind, n |-> 0]

\* what the style keeps of  value + 'px' : a non-finite length is not a length,
\* the assignment is dropped and the property keeps what it had (Null: not set)
AssignPx(value) == IF value.kind = "finite" THEN Some(value.n) ELSE Null

\* the exported click handler's placement (onRegionClick), with the numbers
\* of the script: scaleX and scaleY divide by the viewBox's width and height
ExportClickStyle(g) ==
    LET Negate(e) == CASE e.kind = "Infinity" -> NonFinite("-Infinity")
                       [] e.kind = "-Infinity" -> NonFinite("Infinity")
                       [] OTHER -> [e EXCEPT !.n = 0 - e.n]
        Div(a, b) == IF b # 0 THEN Num(a \div b)
                     ELSE IF a > 0 THEN NonFinite("Infinity")
                     ELSE IF a < 0 THEN NonFinite("-Infinity")
                     ELSE NonFinite("NaN")
        Mul(n, e) == IF e.kind = "finite" THEN Num(n * e.n)
                     ELSE IF e.kind = "NaN" \/ n = 0 THEN NonFinite("NaN")
                     ELSE IF n > 0 THEN e ELSE Negate(e)
        Add(n, e) == IF e.kind = "finite" THEN Num(n + e.n) ELSE e
        Plus(d, e) == IF d.kind = "finite" THEN Add(d.n, e)
                      ELSE IF e.kind = "finite" \/ e.kind = d.kind THEN d
                      ELSE NonFinite("NaN")
        Less(e, n) == (e.kind = "finite" /\ e.n < n) \/ e.kind = "-Infinity"
        Greater(e, n) == (e.kind = "finite" /\ e.n > n) \/ e.kind = "Infinity"
        scaleX == Div(g.svgRect.width, g.viewBox.width)
        scaleY == Div(g.svgRect.height, g.viewBox.height)
        x == Add(g.svgRect.left - g.container.left, Mul(g.bbox.x + g.bbox.width \div 2, scaleX))
        y == Add(g.svgRect.top - g.container.top, Mul(g.bbox.y + g.bbox.height \div 2, scaleY))
        left0 == Add(0 - g.tooltip.width \div 2, x)
        top0 == Add(0 - g.tooltip.height - 10, y)
        top1 == IF Less(top0, g.container.top)
                THEN Plus(y, Add(10, Mul(g.bbox.height \div 2, scaleY)))
                ELSE top0
        left1 == IF Less(left0, 0) THEN Num(10) ELSE left0
        left2 == IF Greater(Add(g.tooltip.width, left1), g.container.width)
                 THEN Num(g.container.width - g.tooltip.width - 10)
                 ELSE left1
    IN  [display |-> "block", scaled |-> TRUE, left |-> AssignPx(left2), top |-> AssignPx(top1)]

\* the editor's positioning effect, click branch: what it writes to the style
EditorClickStyle(g) ==
    [opacity |-> 1, scaled |-> g.viewBox.width > 0,
     left |-> Some(EditorClickPlacement(g).left), top |-> Some(EditorClickPlacement(g).top)]

\* an SVG without a viewBox attribute reports a viewBox of 0 by 0
DegenerateGeometries ==
    {[mode |-> "click",
      bbox |-> Box(bx, by, bw, bh),
      svgRect |-> Rect(20, 20, 200, 100),
      viewBox |-> [width |-> 0, height |-> vh],
      tooltip |-> Rect(0, 0, tw, 40),
      container |-> Rect(0, 0, 400, 200)] :
        bx \in {0, 40}, by \in {0, 60}, bw \in {0, 20}, bh \in {0, 40},
        vh \in {0, 100}, tw \in {100, 396}}

InitDegenerate ==
    /\ prog = "geometry"
    /\ geometry \in {Some(g) : g \in DegenerateGeometries}
    /\ placement = Null
    /\ IdleApp /\ IdleMap /\ IdleHist /\ IdleExport /\ IdleIndex /\ IdleColor /\ IdleAux

\* a click tooltip is placed, in the editor and in the exported page
PlaceClickStyle ==
    /\ prog = "geometry" /\ placement = Null
    /\ geometry[1].mode = "click"
    /\ placement' = Some([editor |-> EditorClickStyle(geometry[1]),
                          export |-> ExportClickStyle(geometry[1])])
    /\ UNCHANGED geometry
    /\ GeoOnly

SpecDegenerate == InitDegenerate /\ [][PlaceClickStyle]_vars

----------------------------------------------------------------------------
(* Claims about renaming *)

IsRenameStep == lastCall'.name = "rename"

\* the DOM ids, the annotation store and the selection
RenameTargetsUnchanged == UNCHANGED <<dom, customizationData, selectedRegionId>>

\* all three of the DOM id, the store key and the selection reflect newId
RenameApplied(oldId, newId) ==
    /\ FirstWithId(dom, oldId) # 0
    /\ dom'[FirstWithId(dom, oldId)].id = newId
    /\ oldId \notin DOMAIN customizationData'
    /\ oldId \in DOMAIN customizationData =>
          /\ newId \in DOMAIN customizationData'
          /\ customizationData'[newId] = customizationData[oldId]
    /\ selectedRegionId' = Some(newId)

\* C1: for every rename call, once its effects have run, either the DOM id,
\* the store key and the selection all reflect newId, or none of the three
\* has changed.
C1_RenameAllOrNothing ==
    [][IsRenameStep =>
          \/ RenameApplied(lastCall'.oldId, Trim(lastCall'.newId))
          \/ RenameTargetsUnchanged]_vars

\* C2: a rename to an identifier that differs from oldId and is carried by
\* another region, whether that region has a record or not, returns failure
\* and leaves the DOM ids, the store and the selection unchanged.
C2_RenameToUsedIdFails ==
    [][(/\ IsRenameStep
        /\ lastCall'.newId # lastCall'.oldId
        /\ \E i \in RegionPositions :
              /\ dom[i].id = lastCall'.newId
              /\ i # FirstWithId(dom, lastCall'.oldId))
          => (~lastCall'.ok /\ RenameTargetsUnchanged)]_vars

RenameLeftNothing ==
    /\ ~lastCall'.ok
    /\ lastCall'.op = Null
    /\ UNCHANGED <<dom, customizationData, selectedRegionId, idChangeOp>>

C4_StoreKeysAreRegionIds ==
    prog = "editor" =>
        \A k \in DOMAIN customizationData :
            k \in RegionIdSet(dom) \/ k \in idsBeforeReload

\* C5: a successful rename moves the selection to newId only if oldId was
\* the selected region; otherwise the selection is left as it was.
C5_SelectionFollowsOnlySelected ==
    [][(IsRenameStep /\ lastCall'.ok /\ Trim(lastCall'.newId) # lastCall'.oldId)
          => IF selectedRegionId = Some(lastCall'.oldId)
             THEN selectedRegionId' = Some(Trim(lastCall'.newId))
             ELSE selectedRegionId' = selectedRegionId]_vars

\* C6: after a successful rename and any later edits, selections and
\* settings changes, a DOM lookup by newId finds the region that carried
\* oldId, and a lookup by oldId finds no region.
C6_LookupAfterRename ==
    (prog = "editor" /\ renamed # Null /\ renamed[1].index # 0) =>
        /\ QuerySelectorId(dom, EscapeSelector(renamed[1].newId)).index = renamed[1].index
        /\ QuerySelectorId(dom, EscapeSelector(renamed[1].oldId)).index = 0

----------------------------------------------------------------------------
(* Claims about tooltips *)

\* C10: no event makes a tooltip active or visible for a region whose record
\* has no title, description or image (a link alone included): not in the
\* editor, where no step makes activeTooltip newly point at such a region,
\* and not in the exported page, where the tooltip is displayed or held open
\* only with the markup of a region that has content.
C10_LinkOnlyNeverShowsTooltip ==
    [][/\ (activeTooltip' # Null /\ activeTooltip' # activeTooltip)
              => HasTooltipContent(customizationData', activeTooltip'[1].id)
       /\ (tooltipDisplay' = "block" \/ activeClickRegionId' # Null)
              => /\ tooltipFor' # Null
                 /\ HasTooltipContent(customizationData', tooltipFor'[1])]_vars

\* click mode in the editor with a link-only region selected: no tooltip
C10_Witness ==
    /\ prog = "editor" /\ tooltipTrigger = "click"
    /\ selectedRegionId # Null
    /\ selectedRegionId[1] \in DOMAIN customizationData
    /\ customizationData[selectedRegionId[1]] = [defaultData EXCEPT !.link = "x"]
    /\ activeTooltip = Null

----------------------------------------------------------------------------
(* Claims about the interaction state machine *)

\* the regions that carry the highlight stroke
Highlighted == {i \in 1..Len(dom) : IsRegion(dom[i]) /\ style[i].stroke = "highlight"}

\* C11: a region for whose identifier the store holds no record gets no
\* interaction behaviour: its fill, stroke and cursor are as the document
\* gives them, and a click on it changes nothing.
C11_NoRecordNoInteraction ==
    [][/\ \A i \in 1..Len(dom') :
             (prog = "editor" /\ IsRegion(dom'[i]) /\ dom'[i].id \notin DOMAIN customizationData')
                 => style'[i] = Pristine
       /\ \A i \in 1..MaxNodes :
             (ClickRegion(i) /\ dom[i].id \notin DOMAIN customizationData)
                 => UNCHANGED <<appVars, mapVars>>]_vars

\* C12: in click mode a click on a region leaves exactly that region
\* selected and highlighted; a click on the close control or the background
\* leaves no region selected; at most one region carries the highlight.
C12_ClickSelectsExactlyOne ==
    [][(prog = "editor" /\ tooltipTrigger = "click") =>
          /\ \A i \in 1..MaxNodes :
                ClickRegion(i) => (selectedRegionId' = Some(dom[i].id) /\ Highlighted' = {i})
          /\ (ClickBackground \/ CloseTooltip) => (selectedRegionId' = Null /\ Highlighted' = {})
          /\ Cardinality(Highlighted') <= 1]_vars

\* C13: in hover mode no click on a region selects or highlights a region,
\* and a click on a region whose record carries a link opens that link, in
\* the editor and in the exported page.
C13_HoverModeHasNoSelection ==
    [][tooltipTrigger = "hover" =>
          /\ \A i \in 1..MaxNodes :
                ClickRegion(i) =>
                    /\ selectedRegionId' = Null
                    /\ Highlighted' = {}
                    /\ (dom[i].id \in DOMAIN customizationData /\ customizationData[dom[i].id].link # "")
                          => opened' = Some(customizationData[dom[i].id].link)
          /\ \A i \in 1..MaxNodes :
                (ExportClickRegion(i) /\ customizationData[xDom[i].id].link # "")
                    => opened' = Some(customizationData[xDom[i].id].link)]_vars

----------------------------------------------------------------------------
(* Claims about tooltip placement *)

Placed(mode) == prog = "geometry" /\ placement # Null /\ geometry[1].mode = mode

\* C14: hover placement starts at (pointerX + 15, pointerY + 15) in viewport
\* coordinates; the left is pointerX - width - 15 exactly when
\* pointerX + 15 + width exceeds the viewport width, the top is
\* pointerY - height - 15 exactly when pointerY + 15 + height exceeds the
\* viewport height; the result is then made relative to the container.  In
\* the editor and in the exported page.
C14_HoverFlip ==
    Placed("hover") =>
        LET g == geometry[1]
            left == IF g.pointer.x + 15 + g.tooltip.width > g.window.width
                    THEN g.pointer.x - g.tooltip.width - 15
                    ELSE g.pointer.x + 15
            top == IF g.pointer.y + 15 + g.tooltip.height > g.window.height
                   THEN g.pointer.y - g.tooltip.height - 15
                   ELSE g.pointer.y + 15
            expected == [left |-> left - g.container.left, top |-> top - g.container.top]
        IN  placement[1].editor = expected /\ placement[1].export = expected

\* the left of the tooltip centred on the region, before any clamp
CentredLeft(g) ==
    (g.svgRect.left - g.container.left)
        + ((g.bbox.x + g.bbox.width \div 2) * g.svgRect.width) \div g.viewBox.width
        - g.tooltip.width \div 2

\* C15 as stated: a negative centred left gives exactly 10; a right edge
\* beyond the container gives left = containerWidth - tooltipWidth - 10.
C15_Original ==
    Placed("click") =>
        LET g == geometry[1]
            c == CentredLeft(g)
        IN  \A p \in {placement[1].editor, placement[1].export} :
                /\ c < 0 => p.left = 10
                /\ (c >= 0 /\ c + g.tooltip.width > g.container.width)
                       => p.left = g.container.width - g.tooltip.width - 10

\* C15, amended: a negative centred left gives exactly 10 when a tooltip at
\* 10 still ends inside the container (10 + tooltipWidth <= containerWidth);
\* when the right edge of the centred or pinned tooltip lies beyond the
\* container, the left is containerWidth - tooltipWidth - 10; otherwise the
\* tooltip stays centred.
C15_ClickClamp ==
    Placed("click") =>
        LET g == geometry[1]
            c == CentredLeft(g)
            pinned == IF c < 0 THEN 10 ELSE c
        IN  \A p \in {placement[1].editor, placement[1].export} :
                p.left = IF pinned + g.tooltip.width > g.container.width
                         THEN g.container.width - g.tooltip.width - 10
                         ELSE pinned

\* container 400 wide, centred left -5: the tooltip is pinned at 10
C15_Witness ==
    /\ Placed("click")
    /\ geometry[1].container.width = 400
    /\ CentredLeft(geometry[1]) = 0 - 5
    /\ placement[1].editor.left = 10

\* C16: when the tooltip is not larger than the container, the editor's
\* click placement keeps the whole tooltip inside the container.
C16_ClickInsideContainer ==
    (/\ Placed("click")
     /\ geometry[1].tooltip.width <= geometry[1].container.width
     /\ geometry[1].tooltip.height <= geometry[1].container.height) =>
        LET g == geometry[1]
            p == placement[1].editor
        IN  /\ 0 <= p.left
            /\ p.left + g.tooltip.width <= g.container.width
            /\ 0 <= p.top
            /\ p.top + g.tooltip.height <= g.container.height

\* C17: for equal input geometry the exported page computes the same
\* (left, top) as the editor, in hover mode and in click mode.
C17_ExportPlacesLikeEditor ==
    (prog = "geometry" /\ placement # Null) => placement[1].export = placement[1].editor

\* the region each page shows a tooltip for, if any
EditorShown == IF TooltipRendered THEN Some(activeTooltip[1].id) ELSE Null
ExportShown == IF tooltipDisplay = "block" THEN tooltipFor ELSE Null

\* C18: for the same snapshot and trigger mode, after every sequence of
\* region clicks, close-control clicks and background clicks the exported
\* page shows a tooltip for the same region as the editor, or both show
\* none, and on both pages the close control is visible only in click mode.
C18_ExportShowsLikeEditor ==
    prog = "pair" =>
        /\ ExportShown = EditorShown
        /\ EditorCloseVisible => tooltipTrigger = "click"
        /\ ExportCloseVisible => tooltipTrigger = "click"

----------------------------------------------------------------------------
(* Claims about the region colours *)

\* C19: in every reachable state the stored defaultRegionHoverColor is the
\* shade derivation of the stored defaultRegionColor with percent -10,
\* whatever settings records were requested, from either panel and with any
\* requested hover colour.
C19_HoverColorDerived ==
    defaultRegionHoverColor = adjustColorShade(defaultRegionColor, Darken)

\* a replace that asked for another region colour and for a hover colour
\* that is not its shade
C19_Witness ==
    /\ prog = "settings"
    /\ lastCall = SettingsCall([tooltipTrigger |-> "click",
                                defaultRegionColor |-> <<"#", "0", "f", "2", "4", "f", "f">>,
                                defaultRegionHoverColor |-> <<"#", "f", "f", "f", "f", "f", "f">>])
    /\ defaultRegionColor = <<"#", "0", "f", "2", "4", "f", "f">>
    /\ defaultRegionHoverColor = <<"#", "0", "0", "0", "b", "e", "6">>

\* the six hexadecimal digits of three channel values
HexColor(r, g, b) == <<"#">> \o Hex2(Clamp255(r)) \o Hex2(Clamp255(g)) \o Hex2(Clamp255(b))

\* C20: the shade derivation of "#FBBF24" with percent -10 shifts every
\* channel by -26: the hover colour stored for the region colour "#FBBF24"
\* is the clamp to 0..255 of 0xFB - 26, 0xBF - 26 and 0x24 - 26 as a
\* six-digit hexadecimal string.
C20_ShadeShiftsBy26 ==
    (prog = "settings" /\ defaultRegionColor = InitialRegionColor)
        => defaultRegionHoverColor = HexColor(251 - 26, 191 - 26, 36 - 26)

----------------------------------------------------------------------------
(* Claims about the exported script *)

\* positions of t that no backslash escapes
RECURSIVE Bare(_, _)
Bare(t, i) ==
    IF i > Len(t) THEN {}
    ELSE IF t[i] = Backslash THEN Bare(t, i + 2) ELSE {i} \cup Bare(t, i + 1)

\* C21: export escaping is a faithful round trip: the escaped text holds no
\* bare GRAVE, no dollar-brace that opens an interpolation and no closing
\* script tag, and evaluating the emitted template literal gives back
\* exactly the original svg text.
C21_EscapeRoundTrip ==
    (prog = "embed" /\ embed[1].value # Null) =>
        LET e == embed[1].escaped[1]
        IN  /\ \A i \in Bare(e, 1) : e[i] # Backtick
            /\ \A i \in Bare(e, 1) : ~(e[i] = "$" /\ i < Len(e) /\ e[i + 1] = "{")
            /\ \A i \in 1..Len(e) - 2 :
                  ~(e[i] = "<" /\ e[i + 1] = "/" /\ e[i + 2] \in {"script>", "SCRIPT>"})
            /\ embed[1].value[1] = [ok |-> TRUE, value |-> embed[1].source]

\* C22: an identifier with characters that need escaping in a selector
\* still resolves to its region in every lookup by identifier: the rename
\* lookup, the click-placement lookup of the editor and the title-label
\* lookup of the exported script each find the element whose id equals the
\* identifier.
C22_SpecialIdsResolve ==
    (prog = "lookup" /\ lookup[1].kind # "none") =>
        /\ ~lookup[1].found.threw
        /\ lookup[1].found.index = FirstWithId(lookup[1].nodes, lookup[1].id)

----------------------------------------------------------------------------
(* Claims about the file inputs *)

\* C23: selecting a file that is not an SVG document, through any file
\* input (upload area, drag and drop, Change SVG), is rejected and changes
\* no state: the loaded svg, the annotation store and the selection stay as
\* they were.
C23_NonSvgFileRejected ==
    [][(lastCall'.name = "file" /\ lastCall'.type # "image/svg+xml")
          => /\ lastCall'.alerted
             /\ UNCHANGED <<svgContent, customizationData, selectedRegionId>>]_vars

----------------------------------------------------------------------------
(* Claims about the settled editor *)

\* C24: in every settled state a region's stroke is the highlight stroke if
\* and only if it is the selected region, and otherwise it is the stroke of
\* the original document (as the markup gives it, or as the styling effect
\* captured and restored it).
C24_StrokeFollowsSelection ==
    prog = "editor" =>
        \A i \in 1..Len(dom) :
            IsRegion(dom[i]) =>
                /\ (style[i].stroke = "highlight") <=> (selectedRegionId = Some(dom[i].id))
                /\ style[i].stroke # "highlight" => style[i].stroke \in {"original", "source"}

\* C25: re-binding listeners on an unchanged svg creates no duplicate
\* handlers: after any sequence of selection changes and settings changes
\* without a new load, a region element has at most one handler of each kind
\* attached (click, mousemove, mouseleave, mouseenter-hover,
\* mouseleave-hover), each attach coming after the detach of what was there.
C25_NoDuplicateHandlers ==
    prog = "listeners" =>
        \A kind \in ListenerKinds :
            Cardinality({h \in listeners[1].on : h.kind = kind}) <= 1

----------------------------------------------------------------------------
(* Claims about the hover tooltip *)

\* the region under the pointer has a record with a title, a description or an image
OverContent(nodes) ==
    /\ pointer # Null
    /\ HasTooltipContent(customizationData, nodes[pointer[1]].id)

\* C26: in hover mode a tooltip is active only while the pointer is over a
\* region whose record has a title, a description or an image: a move of
\* the pointer over such a region activates the tooltip of that region, and
\* in no hover-mode state is a tooltip active once the pointer has left
\* every such region; in the editor and in the exported page.
C26_HoverTooltipFollowsPointer ==
    [][/\ (prog = "editor" /\ tooltipTrigger' = "hover" /\ activeTooltip' # Null)
             => (OverContent(dom)' /\ activeTooltip'[1].id = dom'[pointer'[1]].id)
       /\ (prog = "export" /\ tooltipTrigger' = "hover" /\ tooltipDisplay' = "block")
             => (OverContent(xDom)' /\ tooltipFor' = Some(xDom'[pointer'[1]].id))
       /\ \A i \in 1..MaxNodes :
             (PointerMove(i) /\ tooltipTrigger = "hover" /\ OverContent(dom)')
                 => (activeTooltip' # Null /\ activeTooltip'[1].id = dom[i].id)
       /\ \A i \in 1..MaxNodes :
             (ExportPointerMove(i) /\ tooltipTrigger = "hover" /\ OverContent(xDom)')
                 => (tooltipDisplay' = "block" /\ tooltipFor' = Some(xDom[i].id))]_vars

----------------------------------------------------------------------------
(* Claims about degenerate geometry *)

\* C27: when the viewBox width of the SVG is not positive, click placement
\* raises no error and leaves the tooltip unpositioned: no left or top is
\* computed from a scale factor and none derived from the degenerate
\* geometry is written, in the editor (which writes its initial 0 and 0)
\* and in the exported script (which then writes nothing).
C27_DegenerateViewBoxUnpositioned ==
    (prog = "geometry" /\ placement # Null /\ geometry[1].mode = "click"
        /\ geometry[1].viewBox.width <= 0)
    => /\ ~placement[1].editor.scaled
       /\ placement[1].editor.left = Some(0) /\ placement[1].editor.top = Some(0)
       /\ ~placement[1].export.scaled
       /\ placement[1].export.left = Null /\ placement[1].export.top = Null

----------------------------------------------------------------------------
(* Claims about the title labels *)

\* the region the script finds for key number k, 0 when it finds none
LabelRegion(k) ==
    QuerySelectorId(labels[1].nodes, ExportEscapeSelector(labels[1].keys[k])).index

\* C28: the exported script adds a title label for every key that has a
\* title and resolves to a region whose bounding box has non-zero area, adds
\* none for a region whose bounding box has zero area (width or height 0),
\* and a lookup or geometry failure for one key does not keep the other
\* keys from being labelled.
C28_LabelsForNonZeroArea ==
    (prog = "labels" /\ labels[1].ran) =>
        \A k \in 1..Len(labels[1].keys) :
            (labels[1].titles[k] # <<>> /\ LabelRegion(k) # 0
                /\ ~labels[1].boxes[LabelRegion(k)].threw)
            => LET bbox == labels[1].boxes[LabelRegion(k)]
               IN  labels[1].keys[k] \in labels[1].added
                       <=> (bbox.width # 0 /\ bbox.height # 0)

----------------------------------------------------------------------------
(* Claims about what is exported *)

\* the regions of the editor's map that carry, or were last given, identifier k
Carried(k) ==
    {i \in RegionPositions : dom[i].id = k}
        \cup (IF renamed # Null /\ renamed[1].newId = k /\ renamed[1].index # 0
              THEN {renamed[1].index} ELSE {})

\* generateEmbedCode(svgContent, customizationData, ...): the regions as the
\* exported script indexes the exported markup
ExportedRegions == ExportIndexRegions(svgContent[1].nodes).nodes

\* C29: after any selections, edits and successful renames, for every key k
\* with a record in the exported snapshot, the exported script's indexing of
\* the exported SVG text gives k to the region that carried k in the editor.
C29_ExportBindsSameRegion ==
    (prog = "editor" /\ ListenersAttached) =>
        \A k \in DOMAIN customizationData :
            \A i \in Carried(k) : ExportedRegions[i].id = k

----------------------------------------------------------------------------
(* Claims about the click tooltip *)

\* C30: in click mode in the editor, once the effects have settled, a
\* tooltip is active if and only if a region is selected and its record has
\* a title, a description or an image, and the active tooltip is then the
\* one of the selected region; after a switch to hover mode no tooltip
\* without a pointer position remains active.
C30_ClickTooltipFollowsSelection ==
    (prog = "editor" /\ svgContent # Null) =>
        /\ tooltipTrigger = "click" =>
              /\ activeTooltip # Null
                    <=> (selectedRegionId # Null
                            /\ HasTooltipContent(customizationData, selectedRegionId[1]))
              /\ activeTooltip # Null => activeTooltip[1].id = selectedRegionId[1]
        /\ tooltipTrigger = "hover" =>
              (activeTooltip # Null => activeTooltip[1].event # Null)

\* click mode with the tooltip of the selected region, which has content
C30_Witness ==
    /\ prog = "editor" /\ tooltipTrigger = "click"
    /\ selectedRegionId # Null
    /\ HasTooltipContent(customizationData, selectedRegionId[1])
    /\ activeTooltip = Some([id |-> selectedRegionId[1], event |-> Null])

====
